---- MODULE Spec2Model ----
(***************************************************************************)
(* VoiceNest call-session gateway: the VapiService class (three revisions  *)
(* of server/vapi_integration.js are kept in the repository) and the       *)
(* Express boundary layer of server/app.js that calls it.                  *)
(*                                                                         *)
(* A call is one invocation of a gateway method, either made directly on   *)
(* the exported class (as test-server.js does) or through a REST route.    *)
(* It runs its synchronous checks, issues at most one upstream request,    *)
(* and settles when the upstream reply (or a network error) arrives.       *)
(***************************************************************************)
EXTENDS Integers, Sequences, FiniteSets, TLC

VARIABLES rev, privateKey, publicKey, assistantId, initialized,
          proc, unhandled, calls

vars == <<rev, privateKey, publicKey, assistantId, initialized,
          proc, unhandled, calls>>

creds == <<rev, privateKey, publicKey, assistantId>>

(***************************************************************************)
(* Revisions of the integration class.                                     *)
(***************************************************************************)
RevIntegration == "server/vapi_integration.js"
RevPart001 == "part_001"
RevPart002 == "part_002"
Revisions == {RevIntegration, RevPart001, RevPart002}

(***************************************************************************)
(* JavaScript values.  Undef stands for undefined (an unset environment    *)
(* variable, a missing JSON field); "" is the empty string.  Both are      *)
(* falsy.                                                                  *)
(***************************************************************************)
Undef == "<undefined>"
Falsy(x) == x \in {Undef, ""}
Truthy(x) == ~Falsy(x)
Or(a, b) == IF Truthy(a) THEN a ELSE b

PrivateKeyPlaceholder == "your_private_key_here"
PublicKeyPlaceholder == "your_public_key_here"
AssistantIdPlaceholder == "your_assistant_id_here"

PrivateKeys == {Undef, PrivateKeyPlaceholder, "private-key"}
PublicKeys == {Undef, PublicKeyPlaceholder, "public-key"}
AssistantIds == {Undef, AssistantIdPlaceholder, "assistant-1"}

\* this.apiKey = this.privateKey, assigned once in the constructor
apiKey == privateKey

(***************************************************************************)
(* validateConfig: server/vapi_integration.js tests presence only; the two *)
(* later revisions also reject the literal placeholder strings.            *)
(***************************************************************************)
validateConfigIntegration(priv, pub, asst) ==
    /\ Truthy(priv)
    /\ Truthy(pub)
    /\ Truthy(asst)

validateConfig(priv, pub, asst) ==
    /\ ~(Falsy(priv) \/ priv = PrivateKeyPlaceholder)
    /\ ~(Falsy(pub) \/ pub = PublicKeyPlaceholder)
    /\ ~(Falsy(asst) \/ asst = AssistantIdPlaceholder)

validateConfigOf(r, priv, pub, asst) ==
    IF r = RevIntegration
    THEN validateConfigIntegration(priv, pub, asst)
    ELSE validateConfig(priv, pub, asst)

(***************************************************************************)
(* Errors: kind is the message (or its fixed prefix), status the HTTP      *)
(* status of an API Error, detail the interpolated remainder.              *)
(***************************************************************************)
NoError == [kind |-> "", status |-> 0, detail |-> ""]
Error(kind) == [kind |-> kind, status |-> 0, detail |-> ""]

NotInitializedMsg == "VapiService not initialized. Please check configuration."
AssistantIdMsg == "Assistant ID not configured"
ApiKeyMsg == "Vapi API key not configured"
PrivateKeyMsg == "Vapi private key not configured"
PhoneRequiredMsg == "Phone number is required"
PhoneFormatMsg == "Invalid phone number format. Use international format (+1234567890)"
CallIdMsg == "Call ID is required"
InvalidResponseMsg == "Invalid response from Vapi API - missing required fields"
TypeErrorMsg == "TypeError"

(***************************************************************************)
(* Phone numbers are sequences of one-character strings.                   *)
(***************************************************************************)
Digits == {"0", "1", "2", "3", "4", "5", "6", "7", "8", "9"}
NonZeroDigits == Digits \ {"0"}
\* the character class [\s\-\(\)] of the replace() in makeCall
SeparatorChars == {" ", "-", "(", ")"}

\* the bounds of \d{8,14} in phoneRegex
MinRestDigits == 8
MaxRestDigits == 14

\* phoneNumber.replace(/[\s\-\(\)]/g, '')
cleanPhoneOf(phoneNumber) ==
    SelectSeq(phoneNumber, LAMBDA c : c \notin SeparatorChars)

\* phoneRegexTest with the lower bound of the digit count off by one
phoneRegexTestShort(cleanPhone) ==
    LET digits == IF cleanPhone # <<>> /\ Head(cleanPhone) = "+"
                  THEN Tail(cleanPhone)
                  ELSE cleanPhone
    IN /\ digits # <<>>
       /\ Head(digits) \in NonZeroDigits
       /\ Len(digits) - 1 >= MinRestDigits - 1
       /\ Len(digits) - 1 <= MaxRestDigits
       /\ \A i \in 2..Len(digits) : digits[i] \in Digits

\* /^\+?[1-9]\d{8,14}$/.test(cleanPhone)
phoneRegexTest(cleanPhone) ==
    LET digits == IF cleanPhone # <<>> /\ Head(cleanPhone) = "+"
                  THEN Tail(cleanPhone)
                  ELSE cleanPhone
    IN /\ digits # <<>>
       /\ Head(digits) \in NonZeroDigits
       /\ Len(digits) - 1 >= MinRestDigits
       /\ Len(digits) - 1 <= MaxRestDigits
       /\ \A i \in 2..Len(digits) : digits[i] \in Digits

\* cleanPhone.startsWith('+') ? cleanPhone : `+${cleanPhone}`
customerNumber(cleanPhone) ==
    IF cleanPhone # <<>> /\ Head(cleanPhone) = "+"
    THEN cleanPhone
    ELSE <<"+">> \o cleanPhone

(***************************************************************************)
(* Transport specs and upstream requests.                                  *)
(***************************************************************************)
NoTransport ==
    [present |-> FALSE, provider |-> Undef, format |-> Undef,
     container |-> Undef, sampleRate |-> 0]

\* the default of createWebCall (part_002) and the literal of the web-call route
DefaultTransport ==
    [present |-> TRUE, provider |-> "vapi.websocket", format |-> "pcm_s16le",
     container |-> "raw", sampleRate |-> 16000]

CallerTransport ==
    [present |-> TRUE, provider |-> "daily", format |-> "mulaw",
     container |-> "wav", sampleRate |-> 8000]

NoBody ==
    [present |-> FALSE, assistantId |-> Undef, number |-> <<>>,
     transport |-> NoTransport, updates |-> Undef]

NoRequest ==
    [method |-> "", path |-> <<>>, authorization |-> Undef, body |-> NoBody]

Request(method, path, key, body) ==
    [method |-> method, path |-> path, authorization |-> key, body |-> body]

(***************************************************************************)
(* Upstream replies: a network error, or a status with a body.  A body has *)
(* its raw text and, when the text is JSON, the value JSON.parse gives.    *)
(***************************************************************************)
NoUrlTransport == [present |-> FALSE, provider |-> Undef, websocketCallUrl |-> Undef]
UrlTransport(provider, url) ==
    [present |-> TRUE, provider |-> provider, websocketCallUrl |-> url]

EmptyObject ==
    [t |-> "object", id |-> Undef, transport |-> NoUrlTransport, message |-> Undef,
     name |-> Undef, transcript |-> Undef, extra |-> Undef, publicKey |-> Undef]
JsonNull == [EmptyObject EXCEPT !.t = "null"]
NoValue == [EmptyObject EXCEPT !.t = "none"]

Body(kind, raw, json) == [kind |-> kind, raw |-> raw, json |-> json]

Bodies ==
    { Body("empty", "", NoValue),
      Body("text", "<html>Bad Gateway</html>", NoValue),
      Body("json", "null", JsonNull),
      Body("json", "{}", EmptyObject),
      Body("json", "{message}", [EmptyObject EXCEPT !.message = "upstream says no"]),
      Body("json", "{id}", [EmptyObject EXCEPT !.id = "call-1"]),
      Body("json", "{id,transport{provider}}",
           [EmptyObject EXCEPT !.id = "call-1",
                               !.transport = UrlTransport("vapi.websocket", Undef)]),
      Body("json", "{id,transport{provider,url}}",
           [EmptyObject EXCEPT !.id = "call-1",
                               !.transport = UrlTransport("vapi.websocket", "wss://call-1")]),
      Body("json", "{transport{provider,url}}",
           [EmptyObject EXCEPT !.transport = UrlTransport("vapi.websocket", "wss://call-1")]),
      Body("json", "{id:'',transport{provider,url}}",
           [EmptyObject EXCEPT !.id = "",
                               !.transport = UrlTransport("vapi.websocket", "wss://call-1")]),
      Body("json", "{id,transport{provider,url:''}}",
           [EmptyObject EXCEPT !.id = "call-1",
                               !.transport = UrlTransport("vapi.websocket", "")]),
      Body("json", "{id,transport{provider,url},name,transcript,extra}",
           [EmptyObject EXCEPT !.id = "call-1",
                               !.transport = UrlTransport("vapi.websocket", "wss://call-1"),
                               !.name = "Nest", !.transcript = "hello",
                               !.extra = "cost-and-recording"]),
      Body("json", "{name}", [EmptyObject EXCEPT !.name = "Nest"]),
      Body("json", "{transcript:''}", [EmptyObject EXCEPT !.transcript = ""]) }

Statuses == {199, 200, 299, 300, 500}

NoReply == [net |-> FALSE, netMessage |-> "", status |-> 0, body |-> Body("none", "", NoValue)]
NetworkError(msg) == [NoReply EXCEPT !.net = TRUE, !.netMessage = msg]
Response(status, body) == [NoReply EXCEPT !.status = status, !.body = body]

Replies ==
    {NetworkError("connect ECONNREFUSED")}
        \cup {Response(st, b) : st \in Statuses, b \in Bodies}

(***************************************************************************)
(* makeRequest: the promise settles with a value or an error.              *)
(***************************************************************************)
Resolved(v) == [ok |-> TRUE, value |-> v, err |-> NoError]
Rejected(e) == [ok |-> FALSE, value |-> NoValue, err |-> e]
NoResult == [ok |-> FALSE, value |-> NoValue, err |-> NoError]

ApiError(status, detail) == [kind |-> "API Error", status |-> status, detail |-> detail]
ParseError(detail) == [kind |-> "Parse Error", status |-> 0, detail |-> detail]
RequestError(detail) == [kind |-> "Request Error", status |-> 0, detail |-> detail]

\* res.statusCode >= 200 && res.statusCode < 300
Is2xx(status) == status >= 200 /\ status < 300

\* res.on('end') from JSON.parse on: shared by the three revisions
parseAndClassify(reply) ==
    IF reply.body.kind # "json"
    THEN Rejected(ParseError("Unexpected token"))
    ELSE IF Is2xx(reply.status)
    THEN Resolved(reply.body.json)
    ELSE IF reply.body.json.t = "null"
    THEN \* response.message on null throws inside the try block
         Rejected(ParseError("Cannot read properties of null"))
    ELSE Rejected(ApiError(reply.status,
                           Or(reply.body.json.message, reply.body.raw)))

\* part_002: an empty body is handled before JSON.parse
makeRequestPart002(reply) ==
    IF reply.net
    THEN Rejected(RequestError(reply.netMessage))
    ELSE IF reply.body.raw = ""
    THEN IF Is2xx(reply.status)
         THEN Resolved(EmptyObject)
         ELSE Rejected(ApiError(reply.status, ""))
    ELSE parseAndClassify(reply)

\* server/vapi_integration.js and part_001: JSON.parse of every body
makeRequestIntegration(reply) ==
    IF reply.net
    THEN Rejected(RequestError(reply.netMessage))
    ELSE parseAndClassify(reply)

\* makeRequest reporting a network failure as an HTTP-status failure
makeRequestFoldsNetworkError(reply) ==
    IF reply.net
    THEN Rejected(ApiError(0, reply.netMessage))
    ELSE IF rev = RevPart002
    THEN makeRequestPart002(reply)
    ELSE makeRequestIntegration(reply)

makeRequest(reply) ==
    IF rev = RevPart002
    THEN makeRequestPart002(reply)
    ELSE makeRequestIntegration(reply)

(***************************************************************************)
(* Gateway methods.  A method first runs its synchronous part: it throws   *)
(* (Fail), returns without a request (Return), or issues one request       *)
(* (Send).  Its continuation runs when makeRequest settles.                *)
(***************************************************************************)
Fail(kind) == [sent |-> FALSE, req |-> NoRequest, result |-> Rejected(Error(kind))]
Return(v) == [sent |-> FALSE, req |-> NoRequest, result |-> Resolved(v)]
Send(req) == [sent |-> TRUE, req |-> req, result |-> NoResult]

\* if (!this.initialized) throw ...: the first statement of every method of
\* part_001 and part_002; server/vapi_integration.js has no such statement
notInitialized == rev # RevIntegration /\ ~initialized

getAssistant ==
    IF notInitialized THEN Fail(NotInitializedMsg)
    ELSE IF Falsy(assistantId) THEN Fail(AssistantIdMsg)
    ELSE Send(Request("GET", <<"/assistant/", assistantId>>, apiKey, NoBody))

makeCall(phoneNumber, customAssistantId) ==
    LET cleanPhone == cleanPhoneOf(phoneNumber)
        callData == [NoBody EXCEPT !.present = TRUE,
                                   !.assistantId = Or(customAssistantId, assistantId),
                                   !.number = customerNumber(cleanPhone)]
    IN IF notInitialized THEN Fail(NotInitializedMsg)
       ELSE IF Falsy(apiKey) THEN Fail(ApiKeyMsg)
       ELSE IF phoneNumber = <<>> THEN Fail(PhoneRequiredMsg)
       ELSE IF ~phoneRegexTest(cleanPhone) THEN Fail(PhoneFormatMsg)
       ELSE Send(Request("POST", <<"/call/phone">>, apiKey, callData))

\* console.log(..., result.id) after the await throws on a null result
makeCallResult(settled) ==
    IF settled.ok /\ settled.value.t = "null"
    THEN Rejected(Error(TypeErrorMsg))
    ELSE settled

createWebCallIntegration(customAssistantId) ==
    LET callData == [NoBody EXCEPT !.present = TRUE,
                                   !.assistantId = Or(customAssistantId, assistantId)]
    IN IF Falsy(privateKey) THEN Fail(PrivateKeyMsg)
       ELSE Send(Request("POST", <<"/call/web">>, publicKey, callData))

createWebCallPart001(customAssistantId) ==
    LET callData == [NoBody EXCEPT !.present = TRUE,
                                   !.assistantId = Or(customAssistantId, assistantId)]
    IN IF ~initialized THEN Fail(NotInitializedMsg)
       ELSE IF Falsy(privateKey) THEN Fail(PrivateKeyMsg)
       ELSE Send(Request("POST", <<"/call/web">>, publicKey, callData))

createWebCallPart002(customAssistantId, transportConfig) ==
    LET callData == [NoBody EXCEPT !.present = TRUE,
                                   !.assistantId = Or(customAssistantId, assistantId),
                                   !.transport = IF transportConfig.present
                                                 THEN transportConfig
                                                 ELSE DefaultTransport]
    IN IF ~initialized THEN Fail(NotInitializedMsg)
       ELSE IF Falsy(privateKey) THEN Fail(PrivateKeyMsg)
       ELSE Send(Request("POST", <<"/call">>, privateKey, callData))

createWebCall(customAssistantId, transportConfig) ==
    CASE rev = RevIntegration -> createWebCallIntegration(customAssistantId)
      [] rev = RevPart001 -> createWebCallPart001(customAssistantId)
      [] rev = RevPart002 -> createWebCallPart002(customAssistantId, transportConfig)

\* !result || !result.id || !result.transport || !result.transport.websocketCallUrl
missingRequiredFields(result) ==
    \/ result.t = "null"
    \/ Falsy(result.id)
    \/ ~result.transport.present
    \/ Falsy(result.transport.websocketCallUrl)

\* { ...result, publicKey: this.publicKey }
withPublicKey(result) == [result EXCEPT !.publicKey = publicKey]

createWebCallResultPart002(settled) ==
    IF ~settled.ok THEN settled
    ELSE IF missingRequiredFields(settled.value)
    THEN Rejected(Error(InvalidResponseMsg))
    ELSE Resolved(withPublicKey(settled.value))

\* server/vapi_integration.js and part_001: console.log(result.id), then the spread
createWebCallResultIntegration(settled) ==
    IF ~settled.ok THEN settled
    ELSE IF settled.value.t = "null" THEN Rejected(Error(TypeErrorMsg))
    ELSE Resolved(withPublicKey(settled.value))

createWebCallResult(settled) ==
    IF rev = RevPart002
    THEN createWebCallResultPart002(settled)
    ELSE createWebCallResultIntegration(settled)

\* getCalls with the offset parameter of its commented-out signature
getCallsWithOffset(limit) ==
    IF notInitialized THEN Fail(NotInitializedMsg)
    ELSE IF Falsy(apiKey) THEN Fail(ApiKeyMsg)
    ELSE Send(Request("GET",
                      <<"/call?limit=", IF limit = Undef THEN "100" ELSE limit,
                        "&offset=", "0">>,
                      apiKey, NoBody))

\* getCalls(limit = 100): the default replaces undefined only
getCalls(limit) ==
    IF notInitialized THEN Fail(NotInitializedMsg)
    ELSE IF Falsy(apiKey) THEN Fail(ApiKeyMsg)
    ELSE Send(Request("GET",
                      <<"/call?limit=", IF limit = Undef THEN "100" ELSE limit>>,
                      apiKey, NoBody))

getCall(callId) ==
    IF notInitialized THEN Fail(NotInitializedMsg)
    ELSE IF Falsy(privateKey) THEN Fail(PrivateKeyMsg)
    ELSE IF Falsy(callId) THEN Fail(CallIdMsg)
    ELSE Send(Request("GET", <<"/call/", callId>>, privateKey, NoBody))

endCall(callId) ==
    IF notInitialized THEN Fail(NotInitializedMsg)
    ELSE IF Falsy(apiKey) THEN Fail(ApiKeyMsg)
    ELSE IF Falsy(callId) THEN Fail(CallIdMsg)
    ELSE Send(Request("DELETE", <<"/call/", callId>>, apiKey, NoBody))

\* const call = await this.getCall(callId)
getCallTranscript(callId) == getCall(callId)

\* getCallTranscriptResult treating a call without transcript as a failure
getCallTranscriptResultStrict(settled) ==
    IF ~settled.ok THEN settled
    ELSE IF settled.value.t = "null" THEN Rejected(Error(TypeErrorMsg))
    ELSE IF Falsy(settled.value.transcript) THEN Rejected(Error("Transcript not found"))
    ELSE Resolved([NoValue EXCEPT !.t = "string",
                                  !.transcript = settled.value.transcript])

\* return call.transcript || null
getCallTranscriptResult(settled) ==
    IF ~settled.ok THEN settled
    ELSE IF settled.value.t = "null" THEN Rejected(Error(TypeErrorMsg))
    ELSE IF Falsy(settled.value.transcript) THEN Resolved(JsonNull)
    ELSE Resolved([NoValue EXCEPT !.t = "string",
                                  !.transcript = settled.value.transcript])

updateAssistant(updates) ==
    IF notInitialized THEN Fail(NotInitializedMsg)
    ELSE IF Falsy(assistantId) THEN Fail(AssistantIdMsg)
    ELSE Send(Request("PATCH", <<"/assistant/", assistantId>>, apiKey,
                      [NoBody EXCEPT !.present = Truthy(updates), !.updates = updates]))

(***************************************************************************)
(* healthCheck: everything runs inside its try block.                      *)
(***************************************************************************)
Health(status, message, name) ==
    [status |-> status, message |-> message,
     apiKeyPresent |-> status = "healthy" /\ Truthy(apiKey),
     assistantId |-> IF status = "healthy" THEN assistantId ELSE Undef,
     assistantName |-> name]

\* the status returned when !this.initialized
notReadyStatus == IF rev = RevIntegration THEN "initializing" ELSE "not_configured"

notReadyMessage ==
    IF rev = RevIntegration
    THEN NoError
    ELSE Error("Vapi service not initialized. Please check environment variables.")

healthCheck ==
    IF ~initialized
    THEN Return(Health(notReadyStatus, notReadyMessage, Undef))
    ELSE LET probe == getAssistant
         IN IF probe.sent
            THEN probe
            ELSE Return(Health("error", probe.result.err, Undef))

\* healthCheckResult reporting healthy whatever the probe did
healthCheckResultAlwaysHealthy(settled) ==
    Resolved(Health("healthy", NoError, "Unknown"))

\* healthCheckResult without its catch block
healthCheckResultRethrows(settled) ==
    IF settled.ok
    THEN Resolved(Health("healthy", NoError,
                         IF settled.value.t = "null"
                         THEN "Unknown"
                         ELSE Or(settled.value.name, "Unknown")))
    ELSE settled

\* the await of getAssistant() resumes: return healthy, or catch and return error
healthCheckResult(settled) ==
    IF settled.ok
    THEN Resolved(Health("healthy", NoError,
                         IF settled.value.t = "null"
                         THEN "Unknown"
                         ELSE Or(settled.value.name, "Unknown")))
    ELSE Resolved(Health("error", settled.err, Undef))

(***************************************************************************)
(* Invocations.  args carries every parameter a method or a route reads;   *)
(* the fields a given method does not read keep their defaults.            *)
(***************************************************************************)
NoHookData == [present |-> FALSE, callId |-> Undef, status |-> Undef, transcript |-> Undef]

NoArgs ==
    [phoneNumber |-> <<>>, assistantId |-> Undef, transport |-> NoTransport,
     callId |-> Undef, limit |-> Undef, offset |-> Undef, updates |-> Undef,
     type |-> Undef, data |-> NoHookData, raises |-> FALSE, datastore |-> Undef]

Methods ==
    {"getAssistant", "makeCall", "createWebCall", "getCalls", "getCall", "endCall",
     "getCallTranscript", "updateAssistant", "healthCheck"}

Begin(method, a) ==
    CASE method = "getAssistant" -> getAssistant
      [] method = "makeCall" -> makeCall(a.phoneNumber, a.assistantId)
      [] method = "createWebCall" -> createWebCall(a.assistantId, a.transport)
      [] method = "getCalls" -> getCalls(a.limit)
      [] method = "getCall" -> getCall(a.callId)
      [] method = "endCall" -> endCall(a.callId)
      [] method = "getCallTranscript" -> getCallTranscript(a.callId)
      [] method = "updateAssistant" -> updateAssistant(a.updates)
      [] method = "healthCheck" -> healthCheck

\* the method's code after its await, applied to the settled makeRequest promise
Finish(method, settled) ==
    CASE method = "makeCall" -> makeCallResult(settled)
      [] method = "createWebCall" -> createWebCallResult(settled)
      [] method = "getCallTranscript" -> getCallTranscriptResult(settled)
      [] method = "healthCheck" -> healthCheckResult(settled)
      [] OTHER -> settled

(***************************************************************************)
(* The Express application of server/app.js.  Layers are tried in the      *)
(* order of their registration; the first one that matches answers.  The   *)
(* four-argument error middleware is skipped for a request without error.  *)
(***************************************************************************)
Layer(method, path, handler) == [method |-> method, path |-> path, handler |-> handler]

RouterStack ==
    << Layer("GET", "/api/health", "health"),
       Layer("GET", "/api/vapi/assistant", "assistant"),
       Layer("POST", "/api/vapi/call/phone", "phone"),
       Layer("POST", "/api/vapi/call", "webCall"),
       Layer("GET", "/api/vapi/calls", "calls"),
       Layer("GET", "/api/vapi/calls/:callId", "call"),
       Layer("DELETE", "/api/vapi/calls/:callId", "endCall"),
       Layer("GET", "/api/vapi/calls/:callId/transcript", "transcript"),
       Layer("GET", "/api/vapi/config", "config"),
       Layer("ALL", "*", "notFound"),
       Layer("POST", "/api/vapi/webhook", "webhook") >>

layerMatches(layer, method, path) ==
    /\ layer.method \in {"ALL", method}
    /\ layer.path \in {"*", path}

\* the handler of the first matching layer
Dispatch(method, path) ==
    LET matching == {i \in 1..Len(RouterStack) : layerMatches(RouterStack[i], method, path)}
        first == CHOOSE i \in matching : \A j \in matching : i <= j
    IN RouterStack[first].handler

\* let vapiService; try { vapiService = new VapiService() } catch ...: no
\* revision of the constructor throws, so the variable is always assigned
vapiService == TRUE

\* the body of the health route: health.services.vapi and .supabase
NoHealth ==
    [status |-> Undef, message |-> NoError, apiKeyPresent |-> FALSE,
     assistantId |-> Undef, assistantName |-> Undef]
NoServices == [vapi |-> NoHealth, supabase |-> Undef]

NoResponse ==
    [status |-> 0, success |-> FALSE, error |-> NoError, data |-> NoValue,
     publicKey |-> Undef, assistantId |-> Undef, services |-> NoServices]

\* Refuse adding the credential in use to the error it reports
RefuseNamingCredential(status, message) ==
    [NoResponse EXCEPT !.status = status,
                       !.error = [Error(message) EXCEPT !.detail = privateKey]]

\* res.status(status).json({ success: false, error })
Refuse(status, message) ==
    [NoResponse EXCEPT !.status = status, !.error = Error(message)]

\* res.json({ success: true, data })
Answer(data) == [NoResponse EXCEPT !.status = 200, !.success = TRUE, !.data = data]

Respond(resp) == [resp |-> resp, method |-> "", args |-> NoArgs]
Call(method, args) == [resp |-> NoResponse, method |-> method, args |-> args]

\* configResponse with the whole service object serialised into the body
configResponseWithService ==
    [NoResponse EXCEPT !.status = 200, !.success = TRUE,
                       !.publicKey = publicKey,
                       !.assistantId = assistantId,
                       !.data = [NoValue EXCEPT !.t = "object", !.extra = privateKey]]

\* res.json({ success: true, publicKey, assistantId }) of the config route
configResponse ==
    [NoResponse EXCEPT !.status = 200, !.success = TRUE,
                       !.publicKey = publicKey,
                       !.assistantId = assistantId]

NumericStrings == {"10", "50", "100"}
\* parseInt of a query-string value
parseInt(text) == IF text \in NumericStrings THEN text ELSE "NaN"

\* the webhook handler: its try block starts with a logging call, and its
\* catch block answers res.json({ success: false, error }) with status 200
webhook(a) ==
    IF a.raises
    THEN [NoResponse EXCEPT !.status = 200, !.error = Error(TypeErrorMsg)]
    ELSE IF Falsy(a.type) \/ ~a.data.present
    THEN Refuse(400, "Invalid webhook payload")
    ELSE [NoResponse EXCEPT !.status = 200, !.success = TRUE]

\* overallHealthy requiring every service to be healthy
overallHealthyAll(vapiHealth, supabaseStatus) ==
    /\ vapiHealth.status \in {"healthy", "OK"}
    /\ supabaseStatus \in {"healthy", "OK"}

\* the health route once both reports are in: 200 when some service reports
\* healthy (or OK), 503 otherwise
overallHealthy(vapiHealth, supabaseStatus) ==
    \/ vapiHealth.status \in {"healthy", "OK"}
    \/ supabaseStatus \in {"healthy", "OK"}

healthResponse(vapiHealth, supabaseStatus) ==
    [NoResponse EXCEPT
        !.status = IF overallHealthy(vapiHealth, supabaseStatus) THEN 200 ELSE 503,
        !.services = [vapi |-> vapiHealth, supabase |-> supabaseStatus]]

\* the synchronous part of each route handler, up to its await
RouteBegin(handler, a) ==
    CASE handler = "notFound" -> Respond(Refuse(404, "Route not found"))
      [] handler = "webhook" -> Respond(webhook(a))
      [] handler = "health" ->
           IF vapiService
           THEN Call("healthCheck", a)
           ELSE Respond(healthResponse([NoHealth EXCEPT !.status = "unavailable"],
                                       a.datastore))
      [] ~vapiService -> Respond(Refuse(503, "Vapi service unavailable"))
      [] handler = "config" -> Respond(configResponse)
      [] handler = "assistant" -> Call("getAssistant", a)
      [] handler = "phone" ->
           IF a.phoneNumber = <<>>
           THEN Respond(Refuse(400, PhoneRequiredMsg))
           ELSE Call("makeCall", a)
      [] handler = "webCall" ->
           Call("createWebCall", [a EXCEPT !.transport = DefaultTransport])
      [] handler = "calls" ->
           Call("getCalls",
                [a EXCEPT !.limit = parseInt(IF a.limit = Undef THEN "50" ELSE a.limit),
                          !.offset = parseInt(IF a.offset = Undef THEN "0" ELSE a.offset)])
      [] handler = "call" -> Call("getCall", a)
      [] handler = "endCall" -> Call("endCall", a)
      [] handler = "transcript" -> Call("getCallTranscript", a)

\* prunedWebCall forwarding the gateway's result as it is
prunedWebCallForwardsAll(result) == result

\* the data the web-call route forwards to the browser
prunedWebCall(result) ==
    [NoValue EXCEPT !.t = "object",
                    !.id = result.id,
                    !.transport = UrlTransport(result.transport.provider,
                                               result.transport.websocketCallUrl),
                    !.publicKey = result.publicKey]

\* the health route after its await of healthCheck(): the report, or the
\* catch block's { status: 'error', message }; then the datastore's report
healthRouteEnd(result, supabaseStatus) ==
    healthResponse(IF result.ok
                   THEN result.value
                   ELSE [NoHealth EXCEPT !.status = "error", !.message = result.err],
                   supabaseStatus)

\* the handler after its await: the try block's res.json or the catch block
RouteEnd(handler, result) ==
    IF ~result.ok
    THEN [NoResponse EXCEPT !.status = 500, !.error = result.err]
    ELSE IF handler = "webCall"
    THEN IF missingRequiredFields(result.value)
         THEN Refuse(500, "Invalid response from Vapi service")
         ELSE Answer(prunedWebCall(result.value))
    ELSE Answer(result.value)

(***************************************************************************)
(* State.                                                                  *)
(*   rev, privateKey, publicKey, assistantId  the revision of the class    *)
(*       that is loaded and the three environment variables                *)
(*   initialized   this.initialized                                        *)
(*   proc          "startup": the tick that constructs the service;        *)
(*                 "serving": the event loop runs; "exited"                *)
(*   unhandled     a rejected promise nobody handles is pending            *)
(*   calls         the invocations: idle (not yet made), pending on the    *)
(*                 upstream, or done; input is the HTTP request's params,  *)
(*                 query and body, args what the gateway method was given; *)
(*                 initializedAtStart and inFlightAtStart record the       *)
(*                 gateway state the method was entered in, events counts  *)
(*                 the end and error events of the request                 *)
(***************************************************************************)
NoHttp == [method |-> "", path |-> ""]

Idle ==
    [state |-> "idle", via |-> "", http |-> NoHttp, input |-> NoArgs,
     handler |-> "", method |-> "", args |-> NoArgs, sent |-> 0, req |-> NoRequest, reply |-> NoReply,
     result |-> NoResult, resp |-> NoResponse, initializedAtStart |-> FALSE,
     inFlightAtStart |-> 0, events |-> 0]

\* initialize(): server/vapi_integration.js validates inside initialize() and,
\* on failure, emits 'error' from its catch block; nothing listens, so emit
\* throws and the promise of the async method is rejected
initializeRejects(r, priv, pub, asst) ==
    r = RevIntegration /\ ~validateConfigIntegration(priv, pub, asst)

\* this.initialized once the constructor has returned
constructed(r, priv, pub, asst) == validateConfigOf(r, priv, pub, asst)

Init ==
    /\ rev \in Revisions
    /\ privateKey \in PrivateKeys
    /\ publicKey \in PublicKeys
    /\ assistantId \in AssistantIds
    /\ initialized = constructed(rev, privateKey, publicKey, assistantId)
    /\ unhandled = initializeRejects(rev, privateKey, publicKey, assistantId)
    /\ proc = "startup"
    /\ calls = <<Idle>>

Slots == DOMAIN calls

\* the response of the route that made the call, once the call has a result
Responded(c, result) ==
    CASE c.via # "http" -> NoResponse
      [] c.handler = "health" -> healthRouteEnd(result, c.input.datastore)
      [] OTHER -> RouteEnd(c.handler, result)

\* a gateway method is entered: its synchronous part runs
started(c, method, a) ==
    LET step == Begin(method, a)
    IN [c EXCEPT !.method = method,
                 !.args = a,
                 !.sent = IF step.sent THEN 1 ELSE 0,
                 !.req = step.req,
                 !.reply = NoReply,
                 !.result = step.result,
                 !.initializedAtStart = initialized,
                 !.inFlightAtStart =
                    Cardinality({t \in DOMAIN calls : calls[t].state = "pending"}),
                 !.state = IF step.sent THEN "pending" ELSE "done"]

\* a caller invokes a method of the exported class
Invoke(s, method, a) ==
    /\ proc \in {"startup", "serving"}
    /\ calls[s].state = "idle"
    /\ calls' = [calls EXCEPT ![s] =
                    started([Idle EXCEPT !.via = "direct"], method, a)]
    /\ UNCHANGED <<creds, initialized, proc, unhandled>>

\* an HTTP request reaches the application
HttpRequest(s, method, path, a) ==
    /\ proc = "serving"
    /\ calls[s].state = "idle"
    /\ LET handler == Dispatch(method, path)
           route == RouteBegin(handler, a)
           c == [Idle EXCEPT !.via = "http",
                             !.http = [method |-> method, path |-> path],
                             !.input = a,
                             !.handler = handler,
                             !.args = a]
       IN calls' = [calls EXCEPT ![s] =
                       IF route.method = ""
                       THEN [c EXCEPT !.state = "done", !.resp = route.resp,
                                      !.initializedAtStart = initialized]
                       ELSE LET d == started(c, route.method, route.args)
                            IN IF d.state = "done"
                               THEN [d EXCEPT !.resp = Responded(d, d.result)]
                               ELSE d]
    /\ UNCHANGED <<creds, initialized, proc, unhandled>>

\* Reply with the response body kept in a buffer all requests share: the
\* body is lost to a request that completes while another is in flight
ReplySharedBody(s, reply) ==
    /\ proc = "serving"
    /\ calls[s].state = "pending"
    /\ LET c == calls[s]
           shared == \E t \in DOMAIN calls \ {s} : calls[t].state = "pending"
           seen == IF shared /\ ~reply.net
                   THEN Response(reply.status, Body("empty", "", NoValue))
                   ELSE reply
           result == Finish(c.method, makeRequest(seen))
       IN calls' = [calls EXCEPT ![s] =
                       [c EXCEPT !.state = "done",
                                 !.events = 1,
                                 !.reply = reply,
                                 !.result = result,
                                 !.resp = Responded(c, result)]]
    /\ UNCHANGED <<creds, initialized, proc, unhandled>>

\* Reply with one automatic retry of a failed request
ReplyRetriesOnce(s, reply) ==
    /\ proc = "serving"
    /\ calls[s].state = "pending"
    /\ LET c == calls[s]
           settled == makeRequest(reply)
           result == Finish(c.method, settled)
       IN calls' = [calls EXCEPT ![s] =
                       IF ~settled.ok /\ c.sent < 2
                       THEN [c EXCEPT !.sent = c.sent + 1]
                       ELSE [c EXCEPT !.state = "done",
                                      !.events = 1,
                                      !.reply = reply,
                                      !.result = result,
                                      !.resp = Responded(c, result)]]
    /\ UNCHANGED <<creds, initialized, proc, unhandled>>

\* the upstream answers, or the connection fails: makeRequest settles, the
\* method resumes after its await, and so does the route handler
Reply(s, reply) ==
    /\ proc = "serving"
    /\ calls[s].state = "pending"
    /\ LET c == calls[s]
           result == Finish(c.method, makeRequest(reply))
       IN calls' = [calls EXCEPT ![s] =
                       [c EXCEPT !.state = "done",
                                 !.events = 1,
                                 !.reply = reply,
                                 !.result = result,
                                 !.resp = Responded(c, result)]]
    /\ UNCHANGED <<creds, initialized, proc, unhandled>>

\* a second event of the same request (an 'error' of the socket after the
\* response ended, or the reverse) calls resolve or reject again; the promise
\* is settled already and the call has no effect
SecondEvent(s, reply) ==
    /\ proc = "serving"
    /\ calls[s].state = "done"
    /\ calls[s].sent = 1
    /\ calls[s].events = 1
    /\ calls[s].reply.net # reply.net
    /\ calls' = [calls EXCEPT ![s].events = 2]
    /\ UNCHANGED <<creds, initialized, proc, unhandled>>

\* app.listen: the first tick ended without an unhandled rejection
Listen ==
    /\ proc = "startup"
    /\ ~unhandled
    /\ proc' = "serving"
    /\ UNCHANGED <<creds, initialized, unhandled, calls>>

\* process.on('unhandledRejection', ...) runs at the end of the first tick
UnhandledRejection ==
    /\ proc = "startup"
    /\ unhandled
    /\ proc' = "exited"
    /\ unhandled' = FALSE
    /\ UNCHANGED <<creds, initialized, calls>>

\* destroy() that also wipes the private key
DestroyWipesKey ==
    /\ proc \in {"startup", "serving"}
    /\ initialized' = FALSE
    /\ privateKey' = Undef
    /\ UNCHANGED <<rev, publicKey, assistantId, proc, unhandled, calls>>

\* destroy()
Destroy ==
    /\ proc \in {"startup", "serving"}
    /\ initialized' = FALSE
    /\ UNCHANGED <<creds, proc, unhandled, calls>>

\* SIGTERM or SIGINT: server.close waits for the open requests, then
\* destroy() and process.exit(0)
GracefulShutdown ==
    /\ proc = "serving"
    /\ \A s \in Slots : ~(calls[s].state = "pending" /\ calls[s].via = "http")
    /\ initialized' = FALSE
    /\ proc' = "exited"
    /\ UNCHANGED <<creds, unhandled, calls>>

(***************************************************************************)
(* Inputs.                                                                 *)
(***************************************************************************)
SamplePhones ==
    { <<>>,
      <<"+", "1", "2", "3", "4", "5", "6", "7", "8", "9", "0">>,
      <<"(", "5", "5", "5", ")", " ", "1", "2", "3", "-", "4", "5", "6", "7">>,
      <<"1", "2", "3", "4", "5">>,
      <<"0", "1", "2", "3", "4", "5", "6", "7", "8", "9">>,
      <<" ">> }

CustomAssistantIds == {Undef, "assistant-2"}
CallIds == {Undef, "call-1"}
Limits == {Undef, "10"}

HookTypes ==
    {Undef, "status-update", "transcript", "call-ended", "speech-update",
     "conversation-update", "end-of-call-report", "something-else"}
HookData ==
    {NoHookData,
     [NoHookData EXCEPT !.present = TRUE],
     [NoHookData EXCEPT !.present = TRUE, !.callId = "call-1",
                        !.status = "ended", !.transcript = "hello"]}

MethodArgs(method) ==
    CASE method = "makeCall" ->
           {[NoArgs EXCEPT !.phoneNumber = p, !.assistantId = a] :
               p \in SamplePhones, a \in CustomAssistantIds}
      [] method = "createWebCall" ->
           {[NoArgs EXCEPT !.assistantId = a, !.transport = t] :
               a \in CustomAssistantIds, t \in {NoTransport, CallerTransport}}
      [] method = "getCalls" -> {[NoArgs EXCEPT !.limit = l] : l \in Limits}
      [] method \in {"getCall", "endCall", "getCallTranscript"} ->
           {[NoArgs EXCEPT !.callId = c] : c \in CallIds}
      [] method = "updateAssistant" -> {[NoArgs EXCEPT !.updates = "{name}"]}
      [] OTHER -> {NoArgs}

SupabaseStatuses == {"unavailable", "healthy", "error"}

HttpPaths ==
    {"/api/health", "/api/vapi/assistant", "/api/vapi/call/phone", "/api/vapi/call", "/api/vapi/calls",
     "/api/vapi/calls/:callId", "/api/vapi/calls/:callId/transcript",
     "/api/vapi/config", "/api/vapi/webhook", "/api/nothing-here"}

\* the parameters, query and body a request to the path can carry
HttpArgs(method, path) ==
    CASE path = "/api/vapi/call/phone" ->
           {[NoArgs EXCEPT !.phoneNumber = p] : p \in SamplePhones}
      [] path = "/api/vapi/call" ->
           {[NoArgs EXCEPT !.assistantId = a] : a \in CustomAssistantIds}
      [] path = "/api/vapi/calls" ->
           {[NoArgs EXCEPT !.limit = l, !.offset = o] :
               l \in Limits \cup {"abc"}, o \in {Undef, "10"}}
      [] path \in {"/api/vapi/calls/:callId", "/api/vapi/calls/:callId/transcript"} ->
           {[NoArgs EXCEPT !.callId = "call-1"]}
      [] path = "/api/health" ->
           {[NoArgs EXCEPT !.datastore = d] : d \in SupabaseStatuses}
      [] path = "/api/vapi/webhook" ->
           {[NoArgs EXCEPT !.type = t, !.data = d, !.raises = r] :
               t \in HookTypes, d \in HookData, r \in BOOLEAN}
      [] OTHER -> {NoArgs}

Next ==
    \/ \E s \in Slots, method \in Methods :
          \E a \in MethodArgs(method) : Invoke(s, method, a)
    \/ \E s \in Slots, method \in {"GET", "POST", "DELETE"}, path \in HttpPaths :
          \E a \in HttpArgs(method, path) : HttpRequest(s, method, path, a)
    \/ \E s \in Slots, reply \in Replies : Reply(s, reply)
    \/ Listen
    \/ UnhandledRejection
    \/ Destroy
    \/ GracefulShutdown

Spec == Init /\ [][Next]_vars

(***************************************************************************)
(* A second specification for the phone-number algorithm: makeCall on a    *)
(* family of phone numbers that crosses both boundaries of the digit       *)
(* count, with separators, stray characters and repeated plus signs.       *)
(***************************************************************************)
MaxRestLen == 16

Rep(c, n) == [i \in 1..n |-> c]
InsertAt(seq, k, c) ==
    LET j == IF k > Len(seq) THEN Len(seq) ELSE k
    IN SubSeq(seq, 1, j) \o <<c>> \o SubSeq(seq, j + 1, Len(seq))

PhoneLeads == {<<>>, <<"+">>, <<"+", "+">>}
PhoneFirsts == {"0", "1"}
PhoneStrays == {" ", "-", "(", ")", "x", "+"}

PlainPhones ==
    {lead \o <<first>> \o Rep("5", n) :
        lead \in PhoneLeads, first \in PhoneFirsts, n \in 0..MaxRestLen}

PhoneFamily ==
    PlainPhones
        \cup {InsertAt(p, k, c) :
                 p \in PlainPhones, k \in {0, 2, MaxRestLen}, c \in PhoneStrays}

InitPhone ==
    /\ rev \in Revisions
    /\ privateKey \in {Undef, "private-key"}
    /\ publicKey = "public-key"
    /\ assistantId = "assistant-1"
    /\ initialized = constructed(rev, privateKey, publicKey, assistantId)
    /\ unhandled = initializeRejects(rev, privateKey, publicKey, assistantId)
    /\ proc = "startup"
    /\ calls = <<Idle>>

PhoneReplies ==
    {NetworkError("connect ECONNREFUSED"),
     Response(200, Body("json", "{id}", [EmptyObject EXCEPT !.id = "call-1"]))}

NextPhone ==
    \/ \E s \in Slots, p \in PhoneFamily :
          Invoke(s, "makeCall", [NoArgs EXCEPT !.phoneNumber = p])
    \/ \E s \in Slots, reply \in PhoneReplies : Reply(s, reply)
    \/ Listen
    \/ UnhandledRejection

SpecPhone == InitPhone /\ [][NextPhone]_vars

(***************************************************************************)
(* A third specification for concurrency: several invocations of gateway   *)
(* methods in flight at once on the one service object, their replies      *)
(* arriving in any order, destroy() at any moment.                         *)
(***************************************************************************)
MaxInFlight == 2

InitConc ==
    /\ rev \in Revisions
    /\ privateKey \in {Undef, "private-key"}
    /\ publicKey = "public-key"
    /\ assistantId = "assistant-1"
    /\ initialized = constructed(rev, privateKey, publicKey, assistantId)
    /\ unhandled = initializeRejects(rev, privateKey, publicKey, assistantId)
    /\ proc = "startup"
    /\ calls = [i \in 1..MaxInFlight |-> Idle]

ConcMethods == {"createWebCall", "getCallTranscript", "healthCheck"}

ConcArgs(method) ==
    CASE method = "getCallTranscript" -> {[NoArgs EXCEPT !.callId = "call-1"]}
      [] OTHER -> {NoArgs}

ConcReplies ==
    {NetworkError("connect ECONNREFUSED"),
     Response(500, Body("json", "{message}",
                        [EmptyObject EXCEPT !.message = "upstream says no"])),
     Response(200, Body("json", "{id,transport{provider,url},name,transcript,extra}",
                        [EmptyObject EXCEPT !.id = "call-1",
                                            !.transport = UrlTransport("vapi.websocket", "wss://call-1"),
                                            !.name = "Nest", !.transcript = "hello",
                                            !.extra = "cost-and-recording"]))}

NextConc ==
    \/ \E s \in Slots, method \in ConcMethods :
          \E a \in ConcArgs(method) : Invoke(s, method, a)
    \/ \E s \in Slots, reply \in ConcReplies : Reply(s, reply)
    \/ Listen
    \/ UnhandledRejection
    \/ Destroy

SpecConc == InitConc /\ [][NextConc]_vars

(***************************************************************************)
(* The concurrency specification with the fairness the event loop gives:   *)
(* the first tick ends (the server starts to listen, or the handler of an  *)
(* unhandled rejection runs), and the upstream delivers, for every request *)
(* in flight, a complete response or a network error.  Signals are left    *)
(* out.                                                                    *)
(***************************************************************************)
InitLive ==
    /\ rev \in Revisions
    /\ privateKey = "private-key"
    /\ publicKey \in {Undef, "public-key"}
    /\ assistantId = "assistant-1"
    /\ initialized = constructed(rev, privateKey, publicKey, assistantId)
    /\ unhandled = initializeRejects(rev, privateKey, publicKey, assistantId)
    /\ proc = "startup"
    /\ calls = [i \in 1..MaxInFlight |-> Idle]

NextLive ==
    \/ \E s \in Slots, method \in ConcMethods :
          \E a \in ConcArgs(method) : Invoke(s, method, a)
    \/ \E s \in Slots, reply \in ConcReplies : Reply(s, reply)
    \/ \E s \in Slots, reply \in ConcReplies : SecondEvent(s, reply)
    \/ Listen
    \/ UnhandledRejection
    \/ Destroy

Delivered(s) == \E reply \in ConcReplies : Reply(s, reply)

SpecLive ==
    /\ InitLive
    /\ [][NextLive]_vars
    /\ WF_vars(Listen)
    /\ WF_vars(UnhandledRejection)
    /\ \A s \in 1..MaxInFlight : WF_vars(Delivered(s))

(***************************************************************************)
(* A fourth specification runs the server twice, the second time with      *)
(* another value of VAPI_PRIVATE_KEY and everything else the same: slot 1  *)
(* keeps the request, the upstream reply and the response of the first     *)
(* run, slot 2 those of the second.                                        *)
(***************************************************************************)
FirstPrivateKey == "private-key"
SecondPrivateKey == "private-key-2"
SecondPrivateKeys == {SecondPrivateKey, PrivateKeyPlaceholder, Undef}

InitKeys ==
    /\ rev \in Revisions
    /\ privateKey = FirstPrivateKey
    /\ publicKey \in {PublicKeyPlaceholder, "public-key"}
    /\ assistantId = "assistant-1"
    /\ initialized = constructed(rev, privateKey, publicKey, assistantId)
    /\ unhandled = initializeRejects(rev, privateKey, publicKey, assistantId)
    /\ proc = "startup"
    /\ calls = <<Idle, Idle>>

\* the process is started again with the other private key: the constructor
\* reads the environment and validates it anew
SecondRun(key) ==
    /\ privateKey = FirstPrivateKey
    /\ proc = "serving"
    /\ calls[1].state = "done"
    /\ privateKey' = key
    /\ initialized' = constructed(rev, key, publicKey, assistantId)
    /\ unhandled' = initializeRejects(rev, key, publicKey, assistantId)
    /\ proc' = "startup"
    /\ UNCHANGED <<rev, publicKey, assistantId, calls>>

\* slot 1 records the run under the first private key, slot 2 the other
InRun(s) == (s = 1) <=> (privateKey = FirstPrivateKey)

KeyRoutes ==
    {<<"GET", "/api/health">>, <<"GET", "/api/vapi/assistant">>,
     <<"POST", "/api/vapi/call/phone">>, <<"POST", "/api/vapi/call">>,
     <<"GET", "/api/vapi/calls">>, <<"GET", "/api/vapi/calls/:callId">>,
     <<"GET", "/api/vapi/calls/:callId/transcript">>,
     <<"GET", "/api/vapi/config">>, <<"POST", "/api/vapi/webhook">>}

KeyArgs(path) ==
    CASE path = "/api/vapi/webhook" ->
           {[NoArgs EXCEPT !.type = "status-update", !.data = d] : d \in HookData}
      [] path = "/api/vapi/calls" -> {NoArgs, [NoArgs EXCEPT !.limit = "10"]}
      [] path = "/api/vapi/call/phone" ->
           {[NoArgs EXCEPT !.phoneNumber = p] :
               p \in {<<>>, <<"1", "2", "3", "4", "5">>,
                      <<"+", "1", "2", "3", "4", "5", "6", "7", "8", "9", "0">>}}
      [] OTHER -> HttpArgs("GET", path)

KeyReplies ==
    ConcReplies \cup {Response(500, Body("text", "<html>Bad Gateway</html>", NoValue))}

NextKeys ==
    \/ \E s \in 1..2, route \in KeyRoutes :
          \E a \in KeyArgs(route[2]) :
             InRun(s) /\ HttpRequest(s, route[1], route[2], a)
    \/ \E s \in 1..2, reply \in KeyReplies :
          InRun(s) /\ Reply(s, reply)
    \/ Listen
    \/ UnhandledRejection
    \/ \E key \in SecondPrivateKeys : SecondRun(key)

SpecKeys == InitKeys /\ [][NextKeys]_vars

(***************************************************************************)
(* Properties.                                                             *)
(***************************************************************************)
Made(s) == calls[s].state # "idle"
Done(s) == calls[s].state = "done"
IsHttp(s, method, path) ==
    /\ calls[s].via = "http"
    /\ calls[s].http = [method |-> method, path |-> path]

GuardedMethods ==
    {"getAssistant", "makeCall", "createWebCall", "getCalls", "getCall", "endCall",
     "getCallTranscript", "updateAssistant"}

\* C1: a gateway operation entered while the gateway is uninitialized issues
\* no upstream request: it fails before any request is constructed.
C1_NoRequestWhileUninitialized ==
    \A s \in Slots :
        (/\ Made(s)
         /\ calls[s].method \in GuardedMethods
         /\ ~calls[s].initializedAtStart)
        => /\ calls[s].sent = 0
           /\ calls[s].req = NoRequest
           /\ Done(s)
           /\ ~calls[s].result.ok

\* C2: every request of createWebCall carries the public key and not the
\* private key, and none is issued when the private key is absent.
C2_WebCallSendsPublicKey ==
    \A s \in Slots :
        (calls[s].method = "createWebCall" /\ calls[s].sent > 0)
        => /\ calls[s].req.authorization = publicKey
           /\ calls[s].req.authorization # privateKey
           /\ Truthy(privateKey)

\* C3: a POST to the webhook path is answered 200 when its body has both
\* type and data, whatever the type, and with a client error otherwise.
C3_WebhookAcknowledged ==
    \A s \in Slots :
        (Done(s) /\ IsHttp(s, "POST", "/api/vapi/webhook"))
        => IF Truthy(calls[s].args.type) /\ calls[s].args.data.present
           THEN calls[s].resp.status = 200
           ELSE calls[s].resp.status \in 400..499


AllDigits(seq) == \A i \in 1..Len(seq) : seq[i] \in Digits

RECURSIVE WithoutSeparators(_)
WithoutSeparators(seq) ==
    IF seq = <<>> THEN <<>>
    ELSE IF Head(seq) \in {" ", "-", "(", ")"}
    THEN WithoutSeparators(Tail(seq))
    ELSE <<Head(seq)>> \o WithoutSeparators(Tail(seq))

\* 9 to 15 digits, the first not zero, after an optional leading plus sign
InternationalFormat(seq) ==
    LET digits == IF seq # <<>> /\ seq[1] = "+" THEN Tail(seq) ELSE seq
    IN /\ Len(digits) \in 9..15
       /\ AllDigits(digits)
       /\ digits[1] # "0"

OnlyDigitsOf(seq) == SelectSeq(seq, LAMBDA c : c \in Digits)

\* C4: on an initialized gateway, a phone number whose separator-free form
\* has the international format is sent upstream once, as that form with
\* exactly one leading plus sign; any other phone number is rejected with
\* the format error; and no gateway state sends a request for a number
\* that does not have the format.
C4_PhoneNormalizedOrRejected ==
    \A s \in Slots :
        (Made(s) /\ calls[s].method = "makeCall" /\ calls[s].args.phoneNumber # <<>>)
        => LET stripped == WithoutSeparators(calls[s].args.phoneNumber)
           IN /\ ~InternationalFormat(stripped) => calls[s].sent = 0
              /\ calls[s].initializedAtStart =>
                   IF InternationalFormat(stripped)
                   THEN /\ calls[s].sent = 1
                        /\ calls[s].req.method = "POST"
                        /\ calls[s].req.path = <<"/call/phone">>
                        /\ calls[s].req.body.number = <<"+">> \o OnlyDigitsOf(stripped)
                   ELSE /\ Done(s)
                        /\ ~calls[s].result.ok
                        /\ calls[s].result.err.kind = PhoneFormatMsg

\* a number written with separators and without a plus sign went upstream
C4_Witness ==
    \E s \in Slots :
        /\ calls[s].method = "makeCall"
        /\ calls[s].sent = 1
        /\ Head(calls[s].args.phoneNumber) # "+"
        /\ \E i \in DOMAIN calls[s].args.phoneNumber :
              calls[s].args.phoneNumber[i] \in SeparatorChars
        /\ Head(calls[s].req.body.number) = "+"

\* C5: createWebCall succeeds only on an upstream response that has a
\* non-empty id and a non-empty transport.websocketCallUrl.
C5_WebCallNeedsIdAndUrl ==
    \A s \in Slots :
        (Done(s) /\ calls[s].method = "createWebCall" /\ calls[s].result.ok)
        => /\ calls[s].reply.body.kind = "json"
           /\ Truthy(calls[s].reply.body.json.id)
           /\ calls[s].reply.body.json.transport.present
           /\ Truthy(calls[s].reply.body.json.transport.websocketCallUrl)

\* C6: healthCheck on an uninitialized gateway returns not_configured and
\* issues no upstream request.
C6_NotConfiguredWithoutRequest ==
    \A s \in Slots :
        (Made(s) /\ calls[s].method = "healthCheck" /\ calls[s].via = "direct"
            /\ ~calls[s].initializedAtStart)
        => /\ calls[s].sent = 0
           /\ Done(s)
           /\ calls[s].result.ok
           /\ calls[s].result.value.status = "not_configured"

\* C7: on an initialized gateway healthCheck probes getAssistant once and
\* returns healthy exactly when the probe succeeds; when the probe fails
\* (network failure, non-2xx status, unparsable body) it returns error with
\* the failure's message.
C7_HealthyIffProbeSucceeds ==
    \A s \in Slots :
        (Done(s) /\ calls[s].method = "healthCheck" /\ calls[s].initializedAtStart)
        => LET probe == makeRequest(calls[s].reply)
               health == calls[s].result.value
               reply == calls[s].reply
           IN /\ calls[s].sent = 1
              /\ calls[s].req.method = "GET"
              /\ calls[s].req.path = <<"/assistant/", assistantId>>
              /\ (health.status = "healthy") <=> probe.ok
              /\ ~probe.ok => (health.status = "error" /\ health.message = probe.err)
              /\ (reply.net \/ reply.status \notin 200..299 \/ reply.body.kind = "text")
                    => health.status = "error"
              /\ (~reply.net /\ reply.status \in 200..299 /\ reply.body.kind = "json")
                    => health.status = "healthy"

\* the probe was answered with a non-2xx status and healthCheck reports error
C7_Witness ==
    \E s \in Slots :
        /\ Done(s)
        /\ calls[s].method = "healthCheck"
        /\ calls[s].initializedAtStart
        /\ calls[s].result.value.status = "error"
        /\ calls[s].result.value.message.kind = "API Error"

HealthStatuses == {"healthy", "error", "not_configured", "initializing"}

\* C8: healthCheck never fails: whatever the gateway state and the outcome
\* of the probe, it resolves with one of the four status values.
C8_HealthCheckNeverThrows ==
    \A s \in Slots :
        (Done(s) /\ calls[s].method = "healthCheck")
        => /\ calls[s].result.ok
           /\ calls[s].result.err = NoError
           /\ calls[s].result.value.status \in HealthStatuses

\* the probe failed at the network level and healthCheck still resolved
C8_Witness ==
    \E s \in Slots :
        /\ Done(s)
        /\ calls[s].method = "healthCheck"
        /\ calls[s].reply.net
        /\ calls[s].result.ok

\* C9: the phone-call route answers 400 for a missing phone number and for
\* one that fails the format validation, and answers success with the call
\* object only for a valid number whose upstream call succeeded.
C9_PhoneRouteRejectsWith400 ==
    \A s \in Slots :
        (Done(s) /\ IsHttp(s, "POST", "/api/vapi/call/phone")
            /\ calls[s].initializedAtStart)
        => LET phone == calls[s].args.phoneNumber
               valid == InternationalFormat(WithoutSeparators(phone))
           IN /\ phone = <<>> => calls[s].resp.status = 400
              /\ ~valid => calls[s].resp.status = 400
              /\ calls[s].resp.success =>
                    /\ valid
                    /\ makeRequest(calls[s].reply).ok
                    /\ calls[s].resp.data = calls[s].result.value

\* C10: the assistant route answers 503 when the gateway is unconfigured,
\* 500 with the failure's message for any other failure, and the assistant
\* object on success.
C10_AssistantRouteStatus ==
    \A s \in Slots :
        (Done(s) /\ IsHttp(s, "GET", "/api/vapi/assistant"))
        => IF ~validateConfig(privateKey, publicKey, assistantId)
           THEN calls[s].resp.status = 503
           ELSE IF calls[s].result.ok
           THEN /\ calls[s].resp.status = 200
                /\ calls[s].resp.success
                /\ calls[s].resp.data = calls[s].result.value
           ELSE /\ calls[s].resp.status = 500
                /\ calls[s].resp.error = calls[s].result.err

\* the strings a response body carries, field by field
ResponseStrings(resp) ==
    {resp.publicKey, resp.assistantId, resp.error.kind, resp.error.detail,
     resp.data.id, resp.data.message, resp.data.name, resp.data.transcript,
     resp.data.extra, resp.data.publicKey, resp.data.transport.provider,
     resp.data.transport.websocketCallUrl}

\* C11: the config route answers with success, publicKey and assistantId and
\* nothing else, in every gateway state; the private key is in no field of
\* the body.
C11_ConfigHidesPrivateKey ==
    \A s \in Slots :
        (Done(s) /\ IsHttp(s, "GET", "/api/vapi/config"))
        => /\ calls[s].resp.status = 200
           /\ calls[s].resp.success
           /\ calls[s].resp.publicKey = publicKey
           /\ calls[s].resp.assistantId = assistantId
           /\ calls[s].resp.error = NoError
           /\ calls[s].resp.data = NoValue
           /\ Truthy(privateKey) => privateKey \notin ResponseStrings(calls[s].resp)

\* the config route answered while a private key was configured
C11_Witness ==
    \E s \in Slots :
        /\ Done(s)
        /\ IsHttp(s, "GET", "/api/vapi/config")
        /\ privateKey = "private-key"
        /\ calls[s].resp.publicKey = "public-key"

\* the failures getCall raises before it issues a request
GetCallPreconditionMsgs == {NotInitializedMsg, PrivateKeyMsg, CallIdMsg}

\* what getCall gave the transcript operation: its synchronous failure, or
\* the settlement of its one request
Fetched(s) ==
    IF calls[s].sent = 0 THEN calls[s].result ELSE makeRequest(calls[s].reply)

\* C12: getCallTranscript fails with getCall's failure when getCall fails;
\* when getCall returns a call object it returns null if the object has no
\* transcript field and the transcript value if it has one.
C12_TranscriptOrNull ==
    \A s \in Slots :
        (Done(s) /\ calls[s].method = "getCallTranscript")
        => LET fetched == Fetched(s)
               result == calls[s].result
           IN /\ calls[s].sent = 0 =>
                    ~result.ok /\ result.err.kind \in GetCallPreconditionMsgs
              /\ ~fetched.ok => result = fetched
              /\ (fetched.ok /\ fetched.value.t = "object") =>
                    IF fetched.value.transcript = Undef
                    THEN result = Resolved(JsonNull)
                    ELSE /\ result.ok
                         /\ result.value.t = "string"
                         /\ result.value.transcript = fetched.value.transcript

\* C12 as amended: getCallTranscript fails with getCall's failure when
\* getCall fails; when getCall returns a call object it returns null if the
\* object has no transcript field or an empty one, and the transcript value
\* if it has a non-empty one.
C12_TranscriptOrNullWhenEmpty ==
    \A s \in Slots :
        (Done(s) /\ calls[s].method = "getCallTranscript")
        => LET fetched == Fetched(s)
               result == calls[s].result
           IN /\ calls[s].sent = 0 =>
                    ~result.ok /\ result.err.kind \in GetCallPreconditionMsgs
              /\ ~fetched.ok => result = fetched
              /\ (fetched.ok /\ fetched.value.t = "object") =>
                    IF fetched.value.transcript \in {Undef, ""}
                    THEN result = Resolved(JsonNull)
                    ELSE /\ result.ok
                         /\ result.value.t = "string"
                         /\ result.value.transcript = fetched.value.transcript

\* getCall fetched a call object without transcript field and the operation
\* returned null
C12_Witness ==
    \E s \in Slots :
        /\ Done(s)
        /\ calls[s].method = "getCallTranscript"
        /\ calls[s].reply.status = 200
        /\ calls[s].reply.body.raw = "{id}"
        /\ calls[s].result = Resolved(JsonNull)

BackendMethods ==
    {"makeCall", "getCalls", "getCall", "endCall", "getAssistant", "updateAssistant"}

\* C13: every request issued by makeCall, getCalls, getCall, endCall,
\* getAssistant and updateAssistant carries the configured private key in
\* its Authorization header, and not the public key.
C13_PrivateKeyOnBackendRequests ==
    \A s \in Slots :
        (calls[s].method \in BackendMethods /\ calls[s].sent > 0)
        => /\ Truthy(calls[s].req.authorization)
           /\ calls[s].req.authorization = privateKey
           /\ calls[s].req.authorization # publicKey

\* C14: a success response of the web-call route carries the upstream id,
\* transport.provider and transport.websocketCallUrl and the public key, and
\* no other field of the upstream call object, whatever the upstream sent.
C14_WebCallResponsePruned ==
    \A s \in Slots :
        (Done(s) /\ IsHttp(s, "POST", "/api/vapi/call") /\ calls[s].resp.success)
        => LET upstream == calls[s].reply.body.json
               data == calls[s].resp.data
           IN /\ calls[s].resp.status = 200
              /\ data.id = upstream.id
              /\ data.transport.provider = upstream.transport.provider
              /\ data.transport.websocketCallUrl = upstream.transport.websocketCallUrl
              /\ data.publicKey = publicKey
              /\ data.message = Undef
              /\ data.name = Undef
              /\ data.transcript = Undef
              /\ data.extra = Undef
              /\ calls[s].resp.error = NoError
              /\ calls[s].resp.publicKey = Undef
              /\ calls[s].resp.assistantId = Undef

\* the upstream call object had more fields than the route forwards
C14_Witness ==
    \E s \in Slots :
        /\ Done(s)
        /\ IsHttp(s, "POST", "/api/vapi/call")
        /\ calls[s].resp.success
        /\ calls[s].reply.body.json.extra = "cost-and-recording"
        /\ calls[s].reply.body.json.name = "Nest"
        /\ calls[s].resp.data.id = "call-1"

BoundaryLimit(limit) ==
    CASE limit = Undef -> "50"
      [] limit \in {"10", "50", "100"} -> limit
      [] OTHER -> "NaN"

\* C16: the calls route accepts limit and offset, and the path of its
\* upstream request is exactly /call?limit=<limit>, for every limit and
\* offset; no upstream request of any operation has an offset parameter.
C16_OffsetNeverForwarded ==
    \A s \in Slots :
        /\ calls[s].sent > 0 =>
              \A i \in DOMAIN calls[s].req.path : calls[s].req.path[i] # "&offset="
        /\ (Made(s) /\ IsHttp(s, "GET", "/api/vapi/calls") /\ calls[s].sent > 0)
              => /\ calls[s].req.method = "GET"
                 /\ calls[s].req.path =
                        <<"/call?limit=", BoundaryLimit(calls[s].input.limit)>>
                 /\ calls[s].req.body = NoBody

\* a request with an offset in its query reached the upstream without it
C16_Witness ==
    \E s \in Slots :
        /\ IsHttp(s, "GET", "/api/vapi/calls")
        /\ calls[s].input.offset = "10"
        /\ calls[s].input.limit = Undef
        /\ calls[s].sent = 1
        /\ calls[s].req.path = <<"/call?limit=", "50">>

\* non-empty and not the placeholder sentinel
ValidCredential(value, placeholder) ==
    /\ value \notin {Undef, ""}
    /\ value # placeholder

AllCredentialsValid ==
    /\ ValidCredential(privateKey, "your_private_key_here")
    /\ ValidCredential(publicKey, "your_public_key_here")
    /\ ValidCredential(assistantId, "your_assistant_id_here")

\* C17: after construction the gateway is initialized exactly when the three
\* credentials are non-empty and none is its placeholder; and in every
\* reachable state an initialized gateway has three such credentials.
C17_InitializedIffCredentialsValid ==
    /\ initialized <=> AllCredentialsValid
    /\ [](initialized => AllCredentialsValid)

\* C18: no step (gateway operation, health check, webhook delivery, upstream
\* reply, destroy, shutdown) changes the private key, the public key or the
\* assistant id.
C18_CredentialsImmutable ==
    [][/\ privateKey' = privateKey
       /\ publicKey' = publicKey
       /\ assistantId' = assistantId]_vars

\* an operation completed against the upstream and destroy() has run, with
\* the credentials still in place
C18_Witness ==
    /\ ~initialized
    /\ AllCredentialsValid
    /\ \E s \in Slots : Done(s) /\ calls[s].sent = 1 /\ calls[s].initializedAtStart

\* the reply is a network failure, a non-2xx status or an unparsable body
FailedReply(reply) ==
    \/ reply.net
    \/ reply.status < 200
    \/ reply.status > 299
    \/ reply.body.kind = "text"

\* C19: an invocation of a gateway operation issues at most one upstream
\* request; after a network failure, a non-2xx status or a parse failure it
\* has failed with that one request issued, and getCallTranscript issues
\* exactly the request of its getCall.
C19_AtMostOneRequest ==
    \A s \in Slots :
        /\ calls[s].sent <= 1
        /\ calls[s].state = "pending" => calls[s].sent = 1
        /\ (Done(s) /\ calls[s].sent = 1 /\ FailedReply(calls[s].reply))
              => /\ calls[s].sent = 1
                 /\ calls[s].method # "healthCheck" => ~calls[s].result.ok
        /\ (calls[s].method = "getCallTranscript" /\ calls[s].sent > 0)
              => /\ calls[s].sent = 1
                 /\ calls[s].req.method = "GET"
                 /\ calls[s].req.path = <<"/call/", calls[s].args.callId>>

\* an operation failed on a network error after its single request
C19_Witness ==
    \E s \in Slots :
        /\ Done(s)
        /\ calls[s].method = "getCallTranscript"
        /\ calls[s].reply.net
        /\ ~calls[s].result.ok
        /\ calls[s].sent = 1

\* the same operation with the same input, entered in the same gateway state
SameCall(s, t) ==
    /\ Made(s)
    /\ Made(t)
    /\ calls[s].method = calls[t].method
    /\ calls[s].args = calls[t].args
    /\ calls[s].initializedAtStart = calls[t].initializedAtStart

\* what each operation returns for a reply when nothing else is running
AloneOk(method, reply) ==
    CASE method = "healthCheck" -> TRUE
      [] OTHER -> ~reply.net /\ reply.status = 200

AloneValue(method, reply) ==
    CASE method = "createWebCall" -> [reply.body.json EXCEPT !.publicKey = publicKey]
      [] method = "getCallTranscript" ->
           [NoValue EXCEPT !.t = "string", !.transcript = reply.body.json.transcript]

\* slot s can be completed now, by any reply
CanComplete(s) == \A reply \in ConcReplies : ENABLED Reply(s, reply)

\* C20: with several operations in flight, each one's request and result
\* are those of the operation running alone on the same input, credentials
\* and reply, whatever the others do; any in-flight operation can complete
\* next, whatever the state of the others; and a step of one operation
\* changes nothing of another.
C20_ConcurrentCallsIndependent ==
    /\ [](\A s \in Slots :
            /\ (Done(s) /\ calls[s].sent = 1) =>
                  /\ calls[s].result.ok = AloneOk(calls[s].method, calls[s].reply)
                  /\ IF calls[s].method = "healthCheck"
                     THEN (calls[s].result.value.status = "healthy")
                             <=> (~calls[s].reply.net /\ calls[s].reply.status = 200)
                     ELSE /\ calls[s].result.ok =>
                                calls[s].result.value
                                   = AloneValue(calls[s].method, calls[s].reply)
                          /\ ~calls[s].result.ok =>
                                calls[s].result = makeRequest(calls[s].reply)
            /\ (calls[s].state = "pending" /\ proc = "serving") => CanComplete(s)
            /\ \A t \in Slots :
                  SameCall(s, t) =>
                     /\ calls[s].sent = calls[t].sent
                     /\ calls[s].req = calls[t].req
                     /\ (Done(s) /\ Done(t) /\ calls[s].reply = calls[t].reply)
                           => calls[s].result = calls[t].result)
    /\ [][\A s, t \in Slots :
             (s # t /\ calls'[s] # calls[s]) => calls'[t] = calls[t]]_vars

\* two operations were in flight together and the one entered later has
\* completed, successfully, while the earlier one is still waiting
C20_Witness ==
    \E s, t \in Slots :
        /\ calls[s].state = "pending"
        /\ calls[s].inFlightAtStart = 0
        /\ Done(t)
        /\ calls[t].inFlightAtStart = 1
        /\ calls[t].sent = 1
        /\ calls[t].result.ok
        /\ calls[s].method = calls[t].method

\* C21: the request of createWebCall carries the transport spec the caller
\* supplied, unchanged in every field, and the default profile
\* (vapi.websocket, pcm_s16le, raw, 16000) exactly when none was supplied.
C21_TransportSpecSentUnchanged ==
    \A s \in Slots :
        (calls[s].method = "createWebCall" /\ calls[s].sent > 0)
        => LET supplied == calls[s].args.transport
               sentSpec == calls[s].req.body.transport
           IN /\ sentSpec.present
              /\ supplied.present => sentSpec = supplied
              /\ ~supplied.present =>
                    /\ sentSpec.provider = "vapi.websocket"
                    /\ sentSpec.format = "pcm_s16le"
                    /\ sentSpec.container = "raw"
                    /\ sentSpec.sampleRate = 16000

\* C22: an operation that has issued its upstream request eventually
\* completes, given that the upstream delivers a response or a network
\* error; and its result, once settled, is never settled again, also when
\* a second event of the request arrives.
C22_IssuedRequestSettlesOnce ==
    /\ \A s \in 1..MaxInFlight :
          (calls[s].state = "pending") ~> (calls[s].state = "done")
    /\ [][\A s \in 1..MaxInFlight :
             calls[s].state = "done" =>
                /\ calls'[s].state = "done"
                /\ calls'[s].result = calls[s].result]_vars

\* the operations that return the settlement of makeRequest as it is
PassThroughMethods == {"getAssistant", "getCalls", "getCall", "endCall", "updateAssistant"}

\* slot s holds the settlement of makeRequest for an upstream response
Transported(s) ==
    /\ Done(s)
    /\ calls[s].sent = 1
    /\ calls[s].method \in PassThroughMethods
    /\ ~calls[s].reply.net

\* C23: for an upstream response the transport client resolves with the
\* parsed payload when the status is 2xx, and for every other status,
\* whatever the body (a JSON object with or without message, text that is
\* not JSON, nothing), fails with an API Error that carries the status code
\* and the upstream message field or else the raw body text.
C23_StatusDecidesOutcome ==
    \A s \in Slots :
        (Transported(s) /\ calls[s].reply.body.json.t # "null")
        => LET reply == calls[s].reply
               result == calls[s].result
           IN IF reply.status \in 200..299
              THEN reply.body.kind = "json" => result = Resolved(reply.body.json)
              ELSE /\ ~result.ok
                   /\ result.err.kind = "API Error"
                   /\ result.err.status = reply.status
                   /\ result.err.detail
                         = IF reply.body.kind = "json"
                              /\ reply.body.json.message \notin {Undef, ""}
                           THEN reply.body.json.message
                           ELSE reply.body.raw

\* C24: an empty response body with a 2xx status resolves with an empty
\* object; it is not a parse failure.
C24_EmptyBodyIsEmptyObject ==
    \A s \in Slots :
        (/\ Transported(s)
         /\ calls[s].reply.body.raw = ""
         /\ calls[s].reply.status \in 200..299)
        => /\ calls[s].result.ok
           /\ calls[s].result.value.t = "object"
           /\ calls[s].result.value = EmptyObject

FailureKinds == {"Request Error", "Parse Error", "API Error"}

\* C25: a network failure always gives a Request Error; a 2xx response
\* whose body is not parseable always gives a Parse Error; an API Error is
\* given only for a response with a non-2xx status; and every failure of
\* the transport client has exactly one of the three kinds.
C25_FailureKindsDistinct ==
    \A s \in Slots :
        (Done(s) /\ calls[s].sent = 1 /\ calls[s].method \in PassThroughMethods)
        => LET reply == calls[s].reply
               result == calls[s].result
           IN /\ reply.net =>
                    /\ ~result.ok
                    /\ result.err.kind = "Request Error"
                    /\ result.err.detail = reply.netMessage
              /\ (~reply.net /\ reply.status \in 200..299 /\ reply.body.kind = "text") =>
                    /\ ~result.ok
                    /\ result.err.kind = "Parse Error"
              /\ (~result.ok /\ result.err.kind = "API Error") =>
                    /\ ~reply.net
                    /\ reply.status \notin 200..299
                    /\ result.err.status = reply.status
              /\ (~result.ok /\ result.err.kind = "Request Error") => reply.net
              /\ ~result.ok => result.err.kind \in FailureKinds

\* a 2xx response with a body that is not JSON was reported as a parse
\* failure
C25_Witness ==
    \E s \in Slots :
        /\ Done(s)
        /\ calls[s].method = "getAssistant"
        /\ calls[s].reply.status = 200
        /\ calls[s].reply.body.kind = "text"
        /\ calls[s].result.err.kind = "Parse Error"

\* the layers registered for exactly this method and path
OwnLayers(method, path) ==
    {i \in 1..Len(RouterStack) :
        RouterStack[i].method = method /\ RouterStack[i].path = path}

\* C26: a request to a registered route is answered by the handler
\* registered for that route, not by a layer registered earlier such as the
\* catch-all 404 handler; so a POST to the webhook path is processed by the
\* webhook handler.
C26_RouteAnsweredByOwnHandler ==
    \A s \in Slots :
        (Made(s) /\ calls[s].via = "http"
            /\ OwnLayers(calls[s].http.method, calls[s].http.path) # {})
        => /\ \E i \in OwnLayers(calls[s].http.method, calls[s].http.path) :
                 calls[s].handler = RouterStack[i].handler
           /\ calls[s].handler # "notFound"
           /\ IsHttp(s, "POST", "/api/vapi/webhook") => calls[s].handler = "webhook"

SomeCredentialMissing ==
    \/ privateKey \in {Undef, ""}
    \/ publicKey \in {Undef, ""}
    \/ assistantId \in {Undef, ""}

\* C27: a gateway constructed with a credential missing is uninitialized,
\* and its construction does not terminate the process: no unhandled error
\* or rejection ends the startup tick, the server goes on to serve.
C27_ConstructionNeverExits ==
    /\ [](SomeCredentialMissing => ~initialized)
    /\ [][(SomeCredentialMissing /\ proc = "startup")
             => proc' # "exited"]_vars

\* every string the body of a response carries, the health reports included
BodyStrings(resp) ==
    ResponseStrings(resp) \cup
        {resp.services.vapi.status, resp.services.vapi.message.kind,
         resp.services.vapi.message.detail, resp.services.vapi.assistantId,
         resp.services.vapi.assistantName, resp.services.supabase}

\* the two runs received the same request and the same upstream reply
SameExchange ==
    /\ calls[1].state = "done" /\ calls[2].state = "done"
    /\ calls[1].http = calls[2].http
    /\ calls[1].input = calls[2].input
    /\ calls[1].reply = calls[2].reply

\* C28: no response body of a REST endpoint, on success or on failure,
\* carries the private key, and two runs that differ only in the value of
\* the private key and receive the same request and the same upstream reply
\* answer with identical responses.
C28_ResponsesIndependentOfPrivateKey ==
    /\ \A s \in Slots :
          calls[s].state = "done"
          => BodyStrings(calls[s].resp) \cap {FirstPrivateKey, SecondPrivateKey} = {}
    /\ SameExchange => calls[1].resp = calls[2].resp

\* C28 (amended): no response body carries the private key, and two runs
\* whose private keys are both valid (set, and not the placeholder) and that
\* receive the same request and the same upstream reply answer with
\* identical responses.
C28_ResponsesIndependentOfValidPrivateKey ==
    /\ \A s \in Slots :
          calls[s].state = "done"
          => BodyStrings(calls[s].resp) \cap {FirstPrivateKey, SecondPrivateKey} = {}
    /\ (SameExchange /\ ValidCredential(privateKey, PrivateKeyPlaceholder))
          => calls[1].resp = calls[2].resp

\* both runs answered a web-call request that the upstream accepted, the
\* first under one private key and the second under the other
C28_Witness ==
    /\ SameExchange
    /\ privateKey = SecondPrivateKey
    /\ calls[1].http.path = "/api/vapi/call"
    /\ calls[1].sent = 1 /\ calls[2].sent = 1
    /\ calls[1].resp.status = 200
    /\ calls[2].resp.success

\* the gateway was initialized by its constructor and is not any more:
\* destroy() has been called
Destroyed == constructed(rev, privateKey, publicKey, assistantId) /\ ~initialized

\* the operation of slot s was invoked after destroy()
InvokedAfterDestroy(s) ==
    /\ Made(s)
    /\ calls[s].method \in Methods
    /\ constructed(rev, privateKey, publicKey, assistantId)
    /\ ~calls[s].initializedAtStart

\* what the claim requires of slot s in a state
RefusedAfterDestroy(s) ==
    /\ InvokedAfterDestroy(s)
       => /\ calls[s].sent = 0
          /\ Done(s)
          /\ IF calls[s].method = "healthCheck"
             THEN /\ calls[s].result.ok
                  /\ calls[s].result.value.status = "not_configured"
             ELSE /\ ~calls[s].result.ok
                  /\ calls[s].result.err.kind = NotInitializedMsg
    /\ (Destroyed /\ proc = "serving" /\ calls[s].state = "pending")
       => \A reply \in Replies : ENABLED Reply(s, reply)

\* C29: after destroy() nothing re-initializes the gateway; an operation
\* invoked afterwards issues no upstream request and fails with the
\* not-initialized error, healthCheck returning not_configured instead; a
\* request in flight when destroy() runs can still settle.
C29_DestroyedGatewayRefuses ==
    /\ [][~initialized => ~initialized']_vars
    /\ [](\A s \in 1..MaxInFlight : s \in DOMAIN calls => RefusedAfterDestroy(s))

UnhealthyGatewayStatuses == {"error", "not_configured", "initializing", "unavailable"}

\* C30: GET /api/health answers 200 exactly when the gateway's report or the
\* datastore's report has status healthy, and 503 otherwise; the gateway's
\* report is the one healthCheck returned, and a gateway report of error,
\* not_configured, initializing or unavailable with no healthy datastore
\* yields 503.
C30_HealthStatusFromReports ==
    \A s \in Slots :
        (Done(s) /\ IsHttp(s, "GET", "/api/health"))
        => LET resp == calls[s].resp
               gateway == resp.services.vapi.status
               datastore == resp.services.supabase
           IN /\ resp.services.vapi = calls[s].result.value
              /\ datastore = calls[s].input.datastore
              /\ resp.status \in {200, 503}
              /\ resp.status = 200 <=> ("healthy" \in {gateway, datastore})
              /\ (gateway \in UnhealthyGatewayStatuses /\ datastore # "healthy")
                    => resp.status = 503

\* the probe of the gateway failed, the datastore is healthy, and the route
\* answered 200
C30_Witness ==
    \E s \in Slots :
        /\ Done(s) /\ IsHttp(s, "GET", "/api/health")
        /\ calls[s].sent = 1
        /\ calls[s].resp.services.vapi.status = "error"
        /\ calls[s].resp.services.supabase = "healthy"
        /\ calls[s].resp.status = 200

====
